---- MODULE Spec2Model ----
(***************************************************************************)
(* Model of src/middleware/upload.ts: the upload validators, the cleanup   *)
(* pass over a request's staged files, the cleanup middleware and the      *)
(* upload error handler, run by an express-style dispatcher for one or two *)
(* requests that share the temporary directory.                            *)
(***************************************************************************)
EXTENDS Integers, Sequences, FiniteSets, TLC

\* ------------------------------------------------------------------ bounds

\* Most files one multipart body carries (the route's maxFiles).
MaxFiles == 2

\* ------------------------------------------------------------------- state

VARIABLES
    pc,         \* where the dispatcher is in each request's chain
    endpoint,   \* the route each request is sent to: its acceptor and minFiles
    upload,     \* the multipart body each request carries
    reqFile,    \* req.file
    reqFiles,   \* req.files
    disk,       \* the paths that exist in the upload folder
    unlinks,    \* the unlink operations issued so far, pending or settled
    runs,       \* how many times cleanupFiles was called for each request
    err,        \* the error the dispatcher carries to the error handlers
    valNext,    \* the arguments of the validator's calls to next, in order
    mwNext,     \* those of cleanUploadedFilesMiddleware
    ehNext,     \* those of uploadErrorHandlerMiddleware
    unhandled   \* requests whose chain left a promise rejection unhandled

vars == <<pc, endpoint, upload, reqFile, reqFiles, disk, unlinks, runs, err,
          valNext, mwNext, ehNext, unhandled>>

\* ------------------------------------------------------------ value shapes

\* JavaScript's undefined: an absent req.file / req.files, and next() called
\* with no argument.
Undefined == [typeof |-> "undefined"]

\* The requests the dispatcher may be handling at the same time.
Reqs == {"A", "B"}

\* Strings the code inspects character by character are sequences of
\* characters.
ImagePrefix == <<"i", "m", "a", "g", "e", "/">>
ImagePng == <<"i", "m", "a", "g", "e", "/", "p", "n", "g">>
TextPlain == <<"t", "e", "x", "t", "/", "p", "l", "a", "i", "n">>
ImageBare == <<"i", "m", "a", "g", "e">>

MimeTypes == {ImagePng, TextPlain, ImageBare}
Sizes == {0, 1024}

\* What a multipart part declares about a file.
FileParts == [mimetype : MimeTypes, size : Sizes]

\* String.prototype.startsWith
startsWith(s, prefix) ==
    /\ Len(s) >= Len(prefix)
    /\ SubSeq(s, 1, Len(prefix)) = prefix

\* --------------------------------------------------------- error vocabulary

\* Codes are sequences of string pieces, so that `UPLOAD_${err.code}` is a
\* concatenation.
ErrorResponse(code, message) ==
    [typeof |-> "object", class |-> "Object", success |-> FALSE,
     status |-> 400, code |-> code, message |-> message]

noFile == ErrorResponse(<<"NO_FILES">>, "No files found in the request")
tooFewFiles == ErrorResponse(<<"TOO_FEW_FILES">>, "Too few files uploaded")
badFile == ErrorResponse(<<"UNSUPPORTED_FILE">>, "Unsupported file type")
emptyFile == ErrorResponse(<<"EMPTY_FILE">>, "Empty file uploaded")

\* ------------------------------------------------------------- validators

\* The single-file validator with the size check made before the MIME check.
uploadSingleFileValidatorSizeFirst(file) ==
    IF file = Undefined THEN <<noFile>>
    ELSE IF file.size = 0 THEN <<emptyFile>>
    ELSE IF ~startsWith(file.mimetype, ImagePrefix) THEN <<badFile>>
    ELSE <<Undefined>>

\* The calls to next made by the single-file validator, in order.
uploadSingleFileValidator(file) ==
    IF file = Undefined THEN <<noFile>>
    ELSE IF ~startsWith(file.mimetype, ImagePrefix) THEN <<badFile>>
    ELSE IF file.size = 0 THEN <<emptyFile>>
    ELSE <<Undefined>>

RECURSIVE checkFiles(_, _)
\* The for-of loop of the multi-file validator, from index i on.
checkFiles(files, i) ==
    IF i > Len(files) THEN <<Undefined>>
    ELSE IF ~startsWith(files[i].mimetype, ImagePrefix) THEN <<badFile>>
    ELSE IF files[i].size = 0 THEN <<emptyFile>>
    ELSE checkFiles(files, i + 1)

\* req.files as multer's array() leaves it, and as fields() leaves it.
ArrayOf(items) == [typeof |-> "object", tag |-> "array", items |-> items]
ObjectOf(groups) == [typeof |-> "object", tag |-> "object", groups |-> groups]

\* Array.isArray
isArray(v) == v.typeof = "object" /\ v.tag = "array"

\* The multi-file validator with the size check made before the MIME check.
RECURSIVE checkFilesSizeFirst(_, _)
checkFilesSizeFirst(files, i) ==
    IF i > Len(files) THEN <<Undefined>>
    ELSE IF files[i].size = 0 THEN <<emptyFile>>
    ELSE IF ~startsWith(files[i].mimetype, ImagePrefix) THEN <<badFile>>
    ELSE checkFilesSizeFirst(files, i + 1)

uploadMultipleFilesValidatorSizeFirst(files, minFiles) ==
    IF ~isArray(files) THEN <<noFile>>
    ELSE IF Len(files.items) = 0 THEN <<noFile>>
    ELSE IF Len(files.items) < minFiles THEN <<tooFewFiles>>
    ELSE checkFilesSizeFirst(files.items, 1)

\* The multi-file validator checking every MIME type in a first loop and
\* every size in a second one.
uploadMultipleFilesValidatorTwoLoops(files, minFiles) ==
    IF ~isArray(files) THEN <<noFile>>
    ELSE IF Len(files.items) = 0 THEN <<noFile>>
    ELSE IF Len(files.items) < minFiles THEN <<tooFewFiles>>
    ELSE IF \E i \in 1..Len(files.items) :
                ~startsWith(files.items[i].mimetype, ImagePrefix)
         THEN <<badFile>>
    ELSE IF \E i \in 1..Len(files.items) : files.items[i].size = 0
         THEN <<emptyFile>>
    ELSE <<Undefined>>

\* The calls to next made by the multi-file validator, in order.
uploadMultipleFilesValidator(files, minFiles) ==
    IF ~isArray(files) THEN <<noFile>>
    ELSE IF Len(files.items) = 0 THEN <<noFile>>
    ELSE IF Len(files.items) < minFiles THEN <<tooFewFiles>>
    ELSE checkFiles(files.items, 1)

\* ------------------------------------------------------------ cleanupFiles

RECURSIVE groupPaths(_, _)
\* Object.keys(files).forEach(key => files[key].forEach(...)): the paths of
\* the groups from group g on, in key order and then in file order.
groupPaths(groups, g) ==
    IF g > Len(groups) THEN <<>>
    ELSE [i \in 1..Len(groups[g].items) |-> groups[g].items[i].path]
         \o groupPaths(groups, g + 1)

RECURSIVE SeqOfSet(_)
SeqOfSet(S) ==
    IF S = {} THEN <<>>
    ELSE LET x == CHOOSE y \in S : TRUE IN <<x>> \o SeqOfSet(S \ {x})

\* cleanupFiles that empties the upload folder instead of walking the request.
cleanupPathsWholeFolder(file, files) == SeqOfSet(disk)

\* cleanupFiles that unlinks only the first file of an array or of a group.
cleanupPathsFirstOnly(file, files) ==
    IF file # Undefined THEN <<file.path>>
    ELSE IF files # Undefined
         THEN IF isArray(files)
              THEN [i \in 1..(IF Len(files.items) > 0 THEN 1 ELSE 0) |->
                        files.items[i].path]
              ELSE [g \in 1..Len(files.groups) |-> files.groups[g].items[1].path]
         ELSE <<>>

\* The paths one call of cleanupFiles hands to unlink, in order.
cleanupPaths(file, files) ==
    IF file # Undefined THEN <<file.path>>
    ELSE IF files # Undefined
         THEN IF isArray(files)
              THEN [i \in 1..Len(files.items) |-> files.items[i].path]
              ELSE groupPaths(files.groups, 1)
         ELSE <<>>

\* The promise utils.unlink returns, given what the file system answered:
\* a failed removal is not surfaced to the caller.
unlink(fsResult) == "fulfilled"

\* cleanupFiles on an unlink that rejects when the removal fails.
cleanupFilesPromiseRaw(ops) ==
    IF \E o \in ops : o.result \in {"ENOENT", "EACCES"} THEN "rejected"
    ELSE IF \E o \in ops : o.promise = "pending" THEN "pending"
    ELSE "fulfilled"

\* cleanupFiles on an unlink that tolerates a missing file only.
cleanupFilesPromiseMissingOnly(ops) ==
    IF \E o \in ops : o.result = "EACCES" THEN "rejected"
    ELSE IF \E o \in ops : o.promise = "pending" THEN "pending"
    ELSE "fulfilled"

\* cleanupFiles with Promise.race in the place of Promise.all.
cleanupFilesPromiseRace(ops) ==
    IF ops = {} THEN "fulfilled"
    ELSE IF \A o \in ops : o.promise = "pending" THEN "pending"
    ELSE "fulfilled"

\* The state of the promise of one cleanupFiles call, from the unlink
\* operations it issued: await / Promise.all reject with the first rejection
\* and are fulfilled once every operation is.
cleanupFilesPromise(ops) ==
    IF \E o \in ops : o.promise = "rejected" THEN "rejected"
    ELSE IF \E o \in ops : o.promise = "pending" THEN "pending"
    ELSE "fulfilled"

\* ------------------------------------------------------- error translation

MulterError(code, message) ==
    [typeof |-> "object", class |-> "MulterError", code |-> code,
     message |-> message]

\* The case labels of the switch on err.code.
LimitCodes ==
    {<<"LIMIT_PART_COUNT">>, <<"LIMIT_FILE_SIZE">>, <<"LIMIT_FILE_COUNT">>,
     <<"LIMIT_FIELD_KEY">>, <<"LIMIT_FIELD_VALUE">>, <<"LIMIT_FIELD_COUNT">>,
     <<"LIMIT_UNEXPECTED_FILE">>}

\* The translation without the instanceof test.
uploadErrorResponseAnyObject(error) ==
    IF error.typeof = "object"
    THEN LET response == ErrorResponse(<<"BAD_REQUEST">>, error.message)
         IN IF "code" \in DOMAIN error /\ error.code \in LimitCodes
            THEN [response EXCEPT !.code = <<"UPLOAD_">> \o error.code]
            ELSE response
    ELSE error

\* The value uploadErrorHandlerMiddleware hands to next for an error. Every error
\* the dispatcher routes to an error handler is truthy.
uploadErrorResponse(error) ==
    IF error.typeof = "object" /\ error.class = "MulterError"
    THEN LET response == ErrorResponse(<<"BAD_REQUEST">>, error.message)
         IN IF error.code \in LimitCodes
            THEN [response EXCEPT !.code = <<"UPLOAD_">> \o error.code]
            ELSE response
    ELSE error

\* ------------------------------------------------------------ the requests

\* Sequences over S of at most n elements.
SeqUpTo(S, n) == UNION {[1..k -> S] : k \in 0..n}

\* The routes: upload.single(field), upload.array(field) with a minimum
\* count, and a chain mounted behind multer's fields().
Endpoints ==
    {[mode |-> "single", minFiles |-> 1], [mode |-> "fields", minFiles |-> 1]}
    \cup [mode : {"array"}, minFiles : 1..MaxFiles]

\* The codes of multer's errors and the message it gives each.
MulterCodes == LimitCodes \cup {<<"MISSING_FIELD_NAME">>}

MulterMessage(code) ==
    CASE code = <<"LIMIT_PART_COUNT">> -> "Too many parts"
      [] code = <<"LIMIT_FILE_SIZE">> -> "File too large"
      [] code = <<"LIMIT_FILE_COUNT">> -> "Too many files"
      [] code = <<"LIMIT_FIELD_KEY">> -> "Field name too long"
      [] code = <<"LIMIT_FIELD_VALUE">> -> "Field value too long"
      [] code = <<"LIMIT_FIELD_COUNT">> -> "Too many fields"
      [] code = <<"LIMIT_UNEXPECTED_FILE">> -> "Unexpected field"
      [] OTHER -> "Field name missing"

MulterErrors == {MulterError(c, MulterMessage(c)) : c \in MulterCodes}

\* What the handlers behind the validators may raise.
DownstreamErrors ==
    {[typeof |-> "object", class |-> "Error", message |-> "upstream failure"],
     [typeof |-> "object", class |-> "Error", code |-> <<"LIMIT_FILE_SIZE">>,
      message |-> "File too large"],
     [typeof |-> "string", class |-> "String", message |-> "route failure"]}

\* A request that is not multipart is passed on untouched by the acceptor.
NotMultipart == [multipart |-> FALSE, files |-> <<>>, error |-> Undefined]

\* The bodies a route can be sent: the acceptor of single() takes one file,
\* the others up to MaxFiles; the acceptor either stages them all or raises a
\* MulterError after staging them.
Uploads(e) ==
    {NotMultipart} \cup
    [multipart : {TRUE},
     files : SeqUpTo(FileParts, IF e.mode = "single" THEN 1 ELSE MaxFiles),
     error : {Undefined} \cup MulterErrors]

\* Bodies of image files only, for the runs with two requests.
PlainUploads(e) ==
    {u \in Uploads(e) :
        /\ \A i \in 1..Len(u.files) : u.files[i] = [mimetype |-> ImagePng, size |-> 1024]
        /\ u.error \in {Undefined, MulterError(<<"LIMIT_FILE_SIZE">>, "File too large")}}

\* The single-file route.
Idle == [mode |-> "single", minFiles |-> 1]

InitRest ==
    /\ reqFile = [r \in Reqs |-> Undefined]
    /\ reqFiles = [r \in Reqs |-> Undefined]
    /\ disk = {}
    /\ unlinks = {}
    /\ runs = [r \in Reqs |-> 0]
    /\ err = [r \in Reqs |-> Undefined]
    /\ valNext = [r \in Reqs |-> <<>>]
    /\ mwNext = [r \in Reqs |-> <<>>]
    /\ ehNext = [r \in Reqs |-> <<>>]
    /\ unhandled = {}

\* One request, A, with any body on any route.
Init ==
    /\ pc = [r \in Reqs |-> IF r = "A" THEN "accepting" ELSE "absent"]
    /\ \E e \in Endpoints : \E u \in Uploads(e) :
        /\ endpoint = [r \in Reqs |-> IF r = "A" THEN e ELSE Idle]
        /\ upload = [r \in Reqs |-> IF r = "A" THEN u ELSE NotMultipart]
    /\ InitRest

\* Two requests in flight at once: A on any route, B on the single-file
\* route.
InitConc ==
    /\ pc = [r \in Reqs |-> "accepting"]
    /\ \E ea \in Endpoints :
       \E ua \in PlainUploads(ea), ub \in PlainUploads(Idle) :
        /\ endpoint = [r \in Reqs |-> IF r = "A" THEN ea ELSE Idle]
        /\ upload = [r \in Reqs |-> IF r = "A" THEN ua ELSE ub]
    /\ InitRest

\* ---------------------------------------------------------------- acceptor

\* The file multer stages for part i of request r: a name of its own in the
\* upload folder, under the form field the part came in.
Staged(r, i, part) ==
    [fieldname |-> IF i % 2 = 1 THEN "photo" ELSE "extra",
     path |-> <<r, i>>, mimetype |-> part.mimetype, size |-> part.size]

StagedFiles(r) == [i \in 1..Len(upload[r].files) |-> Staged(r, i, upload[r].files[i])]

\* The paths of a sequence of staged files.
PathsOf(files) == {files[i].path : i \in 1..Len(files)}

SelectField(files, key) == SelectSeq(files, LAMBDA f : f.fieldname = key)

\* req.files of fields(): one entry per field that received a file, in the
\* order the fields first appeared.
GroupByField(files) ==
    SelectSeq(<<[key |-> "photo", items |-> SelectField(files, "photo")],
                [key |-> "extra", items |-> SelectField(files, "extra")]>>,
              LAMBDA g : Len(g.items) > 0)

\* multer's single(field) / array(field) / fields(): stages the parts and
\* fills the request, then passes on, or raises its error, having removed
\* some, all or none of what it staged.
Accept(r) ==
    /\ pc[r] = "accepting"
    /\ LET u == upload[r]
           mode == endpoint[r].mode
           files == StagedFiles(r)
       IN /\ reqFile' = [reqFile EXCEPT ![r] =
                IF u.multipart /\ mode = "single" /\ Len(files) > 0
                THEN files[1] ELSE Undefined]
          /\ reqFiles' = [reqFiles EXCEPT ![r] =
                IF u.multipart /\ mode = "array" THEN ArrayOf(files)
                ELSE IF u.multipart /\ mode = "fields"
                     THEN ObjectOf(GroupByField(files))
                     ELSE Undefined]
          /\ IF u.error = Undefined
             THEN /\ disk' = disk \cup PathsOf(files)
                  /\ err' = err
                  /\ pc' = [pc EXCEPT ![r] =
                        IF mode = "fields" THEN "downstream" ELSE "validating"]
             ELSE /\ \E kept \in SUBSET PathsOf(files) : disk' = disk \cup kept
                  /\ err' = [err EXCEPT ![r] = u.error]
                  /\ pc' = [pc EXCEPT ![r] = "errorHandler"]
    /\ UNCHANGED <<endpoint, upload, unlinks, runs, valNext, mwNext, ehNext,
                   unhandled>>

\* -------------------------------------------------------------- validators

\* The second handler of the route's chain. The dispatcher acts on the
\* first call to next: an argument sends the request to the error handlers.
Validate(r) ==
    /\ pc[r] = "validating"
    /\ LET calls == IF endpoint[r].mode = "single"
                    THEN uploadSingleFileValidator(reqFile[r])
                    ELSE uploadMultipleFilesValidator(reqFiles[r],
                                                      endpoint[r].minFiles)
       IN /\ valNext' = [valNext EXCEPT ![r] = calls]
          /\ IF calls[1] = Undefined
             THEN /\ pc' = [pc EXCEPT ![r] = "downstream"]
                  /\ err' = err
             ELSE /\ pc' = [pc EXCEPT ![r] = "errorHandler"]
                  /\ err' = [err EXCEPT ![r] = calls[1]]
    /\ UNCHANGED <<endpoint, upload, reqFile, reqFiles, disk, unlinks, runs,
                   mwNext, ehNext, unhandled>>

\* The handler behind the validator: it finishes and passes on to the
\* cleanup middleware, or raises.
Downstream(r) ==
    /\ pc[r] = "downstream"
    /\ \E outcome \in {Undefined} \cup DownstreamErrors :
        IF outcome = Undefined
        THEN /\ pc' = [pc EXCEPT ![r] = "cleanup"]
             /\ err' = err
        ELSE /\ pc' = [pc EXCEPT ![r] = "errorHandler"]
             /\ err' = [err EXCEPT ![r] = outcome]
    /\ UNCHANGED <<endpoint, upload, reqFile, reqFiles, disk, unlinks, runs,
                   valNext, mwNext, ehNext, unhandled>>

\* ----------------------------------------------------------------- cleanup

\* The unlink operations of request r's k-th call of cleanupFiles.
OpsOf(r, k) == {o \in unlinks : o.req = r /\ o.run = k}

\* cleanupFiles(req), up to its await: every unlink is issued before the
\* call returns its promise.
cleanupFiles(r) ==
    LET paths == cleanupPaths(reqFile[r], reqFiles[r])
    IN /\ runs' = [runs EXCEPT ![r] = @ + 1]
       /\ unlinks' = unlinks \cup
            {[req |-> r, run |-> runs[r] + 1, path |-> paths[i],
              result |-> "pending", promise |-> "pending"] :
                i \in 1..Len(paths)}

\* cleanUploadedFilesMiddleware, up to the promise it waits on.
CleanUploadedFilesMiddleware(r) ==
    /\ pc[r] = "cleanup"
    /\ cleanupFiles(r)
    /\ pc' = [pc EXCEPT ![r] = "mwWait"]
    /\ UNCHANGED <<endpoint, upload, reqFile, reqFiles, disk, err, valNext,
                   mwNext, ehNext, unhandled>>

\* What the file system can answer to the removal of path.
FsResults(path) == IF path \in disk THEN {"removed", "EACCES"} ELSE {"ENOENT"}

\* One pending unlink of request r completes.
UnlinkSettle(r) ==
    \E o \in unlinks :
        /\ o.req = r
        /\ o.result = "pending"
        /\ \E res \in FsResults(o.path) :
            /\ disk' = IF res = "removed" THEN disk \ {o.path} ELSE disk
            /\ unlinks' = (unlinks \ {o}) \cup
                 {[o EXCEPT !.result = res, !.promise = unlink(res)]}
        /\ UNCHANGED <<pc, endpoint, upload, reqFile, reqFiles, runs, err,
                       valNext, mwNext, ehNext, unhandled>>

\* cleanupFiles(req).finally(next): next is called with no argument once the
\* promise is settled either way; a rejection stays on the promise finally
\* returns, which nothing handles.
CleanUploadedFilesNext(r) ==
    /\ pc[r] = "mwWait"
    /\ cleanupFilesPromise(OpsOf(r, runs[r])) # "pending"
    /\ mwNext' = [mwNext EXCEPT ![r] = Append(@, Undefined)]
    /\ unhandled' = IF cleanupFilesPromise(OpsOf(r, runs[r])) = "rejected"
                    THEN unhandled \cup {r} ELSE unhandled
    /\ pc' = [pc EXCEPT ![r] = "after"]
    /\ UNCHANGED <<endpoint, upload, reqFile, reqFiles, disk, unlinks, runs,
                   err, valNext, ehNext>>

\* Whatever the application mounts behind the cleanup middleware: it ends the
\* request, or raises.
After(r) ==
    /\ pc[r] = "after"
    /\ \E outcome \in {Undefined} \cup DownstreamErrors :
        IF outcome = Undefined
        THEN /\ pc' = [pc EXCEPT ![r] = "done"]
             /\ err' = err
        ELSE /\ pc' = [pc EXCEPT ![r] = "errorHandler"]
             /\ err' = [err EXCEPT ![r] = outcome]
    /\ UNCHANGED <<endpoint, upload, reqFile, reqFiles, disk, unlinks, runs,
                   valNext, mwNext, ehNext, unhandled>>

\* uploadErrorHandlerMiddleware, up to its await.
UploadErrorHandlerMiddleware(r) ==
    /\ pc[r] = "errorHandler"
    /\ cleanupFiles(r)
    /\ pc' = [pc EXCEPT ![r] = "ehWait"]
    /\ UNCHANGED <<endpoint, upload, reqFile, reqFiles, disk, err, valNext,
                   mwNext, ehNext, unhandled>>

\* uploadErrorHandlerMiddleware after its await: a rejected cleanupFiles
\* rejects the handler before it calls next; otherwise it hands the
\* translated error to next, and the final error handler answers.
UploadErrorHandlerNext(r) ==
    /\ pc[r] = "ehWait"
    /\ cleanupFilesPromise(OpsOf(r, runs[r])) # "pending"
    /\ IF cleanupFilesPromise(OpsOf(r, runs[r])) = "rejected"
       THEN /\ pc' = [pc EXCEPT ![r] = "rejected"]
            /\ ehNext' = ehNext
            /\ unhandled' = unhandled \cup {r}
       ELSE /\ pc' = [pc EXCEPT ![r] = "done"]
            /\ ehNext' = [ehNext EXCEPT ![r] = Append(@, uploadErrorResponse(err[r]))]
            /\ unhandled' = unhandled
    /\ UNCHANGED <<endpoint, upload, reqFile, reqFiles, disk, unlinks, runs,
                   err, valNext, mwNext>>

Next ==
    \E r \in Reqs :
        \/ Accept(r)
        \/ Validate(r)
        \/ Downstream(r)
        \/ CleanUploadedFilesMiddleware(r)
        \/ UnlinkSettle(r)
        \/ CleanUploadedFilesNext(r)
        \/ After(r)
        \/ UploadErrorHandlerMiddleware(r)
        \/ UploadErrorHandlerNext(r)

Spec == Init /\ [][Next]_vars

SpecConc == InitConc /\ [][Next]_vars

\* ================================================================== claims

\* The paths staged for request r, once its acceptor has run.
StagedPaths(r) ==
    IF pc[r] \in {"absent", "accepting"} THEN {}
    ELSE {<<r, i>> : i \in 1..Len(upload[r].files)}

\* The unlink operations issued on path p.
Attempts(p) == {o \in unlinks : o.path = p}

\* The chain of request r has ended.
Ended(r) == pc[r] \in {"done", "rejected"}

\* The validator of request r has run.
Validated(r) ==
    /\ endpoint[r].mode \in {"single", "array"}
    /\ upload[r].error = Undefined
    /\ pc[r] \notin {"absent", "accepting", "validating"}

\* A MIME type that begins with image/.
IsImage(m) == Len(m) >= 6 /\ <<m[1], m[2], m[3], m[4], m[5], m[6]>> = ImagePrefix

\* The validator of r called next exactly once, with a 400 response of this
\* code.
Rejects(r, code) ==
    /\ Len(valNext[r]) = 1
    /\ valNext[r][1].typeof = "object"
    /\ valNext[r][1].success = FALSE
    /\ valNext[r][1].status = 400
    /\ valNext[r][1].code = <<code>>

\* The validator of r called next exactly once, with no argument.
Passes(r) == valNext[r] = <<Undefined>>

C2_SingleFileValidator ==
    \A r \in Reqs :
        (Validated(r) /\ endpoint[r].mode = "single") =>
            LET files == upload[r].files
            IN IF Len(files) = 0 THEN Rejects(r, "NO_FILES")
               ELSE IF ~IsImage(files[1].mimetype) THEN Rejects(r, "UNSUPPORTED_FILE")
               ELSE IF files[1].size = 0 THEN Rejects(r, "EMPTY_FILE")
               ELSE Passes(r)

\* A zero-size file that is no image was rejected as UNSUPPORTED_FILE.
C2_Witness ==
    \E r \in Reqs :
        /\ Validated(r) /\ endpoint[r].mode = "single"
        /\ upload[r].files = <<[mimetype |-> TextPlain, size |-> 0]>>
        /\ Rejects(r, "UNSUPPORTED_FILE")

\* ---- C3 ---------------------------------------------------------------
\* The indexes of the files that break a rule.
Violating(files) ==
    {i \in 1..Len(files) : ~IsImage(files[i].mimetype) \/ files[i].size = 0}

\* C3: the multi-file validator calls next exactly once: with NO_FILES/400
\* if the collection is absent or empty, else TOO_FEW_FILES/400 if the count
\* is below minFiles, else with the error of the first file in array order
\* that breaks a rule (UNSUPPORTED_FILE before EMPTY_FILE for that file),
\* else with no argument.
C3_MultipleFilesValidator ==
    \A r \in Reqs :
        (Validated(r) /\ endpoint[r].mode = "array") =>
            LET files == upload[r].files
                bad == Violating(files)
            IN IF Len(files) = 0 THEN Rejects(r, "NO_FILES")
               ELSE IF Len(files) < endpoint[r].minFiles
                    THEN Rejects(r, "TOO_FEW_FILES")
               ELSE IF bad = {} THEN Passes(r)
               ELSE LET first == CHOOSE i \in bad : \A j \in bad : i <= j
                    IN IF ~IsImage(files[first].mimetype)
                       THEN Rejects(r, "UNSUPPORTED_FILE")
                       ELSE Rejects(r, "EMPTY_FILE")

\* An empty image followed by a text file was rejected as EMPTY_FILE.
C3_Witness ==
    \E r \in Reqs :
        /\ Validated(r) /\ endpoint[r].mode = "array"
        /\ upload[r].files = <<[mimetype |-> ImagePng, size |-> 0],
                               [mimetype |-> TextPlain, size |-> 1024]>>
        /\ Rejects(r, "EMPTY_FILE")

\* ---- C4 ---------------------------------------------------------------
\* The code the claim gives the translation of a MulterError of code c.
C4_Code(c) ==
    CASE c = <<"LIMIT_PART_COUNT">> -> <<"UPLOAD_", "LIMIT_PART_COUNT">>
      [] c = <<"LIMIT_FILE_SIZE">> -> <<"UPLOAD_", "LIMIT_FILE_SIZE">>
      [] c = <<"LIMIT_FILE_COUNT">> -> <<"UPLOAD_", "LIMIT_FILE_COUNT">>
      [] c = <<"LIMIT_FIELD_KEY">> -> <<"UPLOAD_", "LIMIT_FIELD_KEY">>
      [] c = <<"LIMIT_FIELD_VALUE">> -> <<"UPLOAD_", "LIMIT_FIELD_VALUE">>
      [] c = <<"LIMIT_FIELD_COUNT">> -> <<"UPLOAD_", "LIMIT_FIELD_COUNT">>
      [] c = <<"LIMIT_UNEXPECTED_FILE">> -> <<"UPLOAD_", "LIMIT_UNEXPECTED_FILE">>
      [] OTHER -> <<"BAD_REQUEST">>

\* Value v is what the claim says the translator forwards for error e.
C4_Forwarded(e, v) ==
    IF e.class = "MulterError"
    THEN /\ v.class = "Object"
         /\ DOMAIN v = {"typeof", "class", "success", "status", "code", "message"}
         /\ v.success = FALSE
         /\ v.status = 400
         /\ v.message = e.message
         /\ v.code = C4_Code(e.code)
    ELSE v = e

\* C4: the error translator calls next at most once, and by the time the
\* chain of a request that raised an error has ended it has called it once:
\* with the 400 response of code UPLOAD_<code> (one of the seven limit codes)
\* or BAD_REQUEST and the error's own message for a MulterError, and with
\* the error itself for any other error.
C4_ErrorTranslator ==
    \A r \in Reqs :
        /\ Len(ehNext[r]) <= 1
        /\ Len(ehNext[r]) = 1 => C4_Forwarded(err[r], ehNext[r][1])
        /\ (Ended(r) /\ err[r] # Undefined) => Len(ehNext[r]) = 1

\* A file-size error was translated to UPLOAD_LIMIT_FILE_SIZE and kept its
\* message.
C4_Witness ==
    \E r \in Reqs :
        /\ pc[r] = "done"
        /\ err[r] = MulterError(<<"LIMIT_FILE_SIZE">>, "File too large")
        /\ ehNext[r] = <<ErrorResponse(<<"UPLOAD_", "LIMIT_FILE_SIZE">>,
                                        "File too large")>>

\* ---- C5 ---------------------------------------------------------------
\* The unlink operations of request r that failed.
Failed(r) == {o \in unlinks : o.req = r /\ o.result \in {"ENOENT", "EACCES"}}

C6_CleanupExactlyOnce ==
    \A r \in Reqs :
        Ended(r) => \A p \in StagedPaths(r) : Cardinality(Attempts(p)) = 1

\* ---- C7 ---------------------------------------------------------------
\* C7, second invocation: in a step of a request whose cleanup runs for the
\* second time with none of its files left on disk, the disk does not
\* change, and neither the cleanup promise nor the handler rejects.
C7_SecondPass ==
    \A r \in Reqs :
        (runs[r] >= 2 /\ StagedPaths(r) \cap disk = {}) =>
            /\ disk' = disk
            /\ cleanupFilesPromise(OpsOf(r, runs[r]))' # "rejected"
            /\ pc'[r] # "rejected"
            /\ r \notin unhandled'

\* C7, no staged file: a cleanup of a request with no staged file issues no
\* unlink and its promise is fulfilled at once.
C7_NoFiles ==
    \A r \in Reqs :
        (pc[r] \in {"mwWait", "ehWait"} /\ StagedPaths(r) = {}) =>
            /\ OpsOf(r, runs[r]) = {}
            /\ cleanupFilesPromise(OpsOf(r, runs[r])) = "fulfilled"

NotImages(files) == {i \in 1..Len(files) : ~IsImage(files[i].mimetype)}

\* C8 as stated: a request whose validator ran and that carries a file whose
\* MIME type does not begin with image/ is rejected as UNSUPPORTED_FILE.
C8_AnyNonImageUnsupported ==
    \A r \in Reqs :
        (Validated(r) /\ NotImages(upload[r].files) # {}) =>
            Rejects(r, "UNSUPPORTED_FILE")

\* C8, amended: such a request is rejected as UNSUPPORTED_FILE provided
\* that, on the multi-file route, the count is not below minFiles and no
\* file before the first non-image is an empty file; the non-image's own
\* size does not matter.
C8_NonImageUnsupported ==
    \A r \in Reqs :
        LET files == upload[r].files
            bad == NotImages(files)
        IN (Validated(r) /\ bad # {}) =>
            LET first == CHOOSE i \in bad : \A j \in bad : i <= j
            IN (endpoint[r].mode = "array" =>
                    /\ Len(files) >= endpoint[r].minFiles
                    /\ \A j \in 1..(first - 1) : files[j].size # 0)
                => Rejects(r, "UNSUPPORTED_FILE")

\* An image followed by an empty text file was rejected as UNSUPPORTED_FILE.
C8_Witness ==
    \E r \in Reqs :
        /\ Validated(r) /\ endpoint[r].mode = "array"
        /\ upload[r].files = <<[mimetype |-> ImagePng, size |-> 1024],
                               [mimetype |-> TextPlain, size |-> 0]>>
        /\ Rejects(r, "UNSUPPORTED_FILE")

\* ---- C9 ---------------------------------------------------------------
\* The unlink operations of request r that have not settled.
Pending(r) == {o \in unlinks : o.req = r /\ o.result = "pending"}

\* C9: while a handler waits on cleanupFiles, an unlink has been issued for
\* every file the request holds; and outside those waits, that is once the
\* handler has called next, no unlink of the request is pending.
C9_NextAfterAllSettled ==
    \A r \in Reqs :
        /\ pc[r] \in {"mwWait", "ehWait"} =>
            {o.path : o \in OpsOf(r, runs[r])} = StagedPaths(r)
        /\ pc[r] \notin {"mwWait", "ehWait"} => Pending(r) = {}

\* A handler is still waiting although one of its removals has already
\* failed, because another one is pending.
C9_Witness ==
    \E r \in Reqs :
        /\ pc[r] \in {"mwWait", "ehWait"}
        /\ \E o \in OpsOf(r, runs[r]) : o.result \in {"ENOENT", "EACCES"}
        /\ \E o \in OpsOf(r, runs[r]) : o.result = "pending"

\* ---- C10 --------------------------------------------------------------
\* C10: every unlink a request issues is on a path staged for that request,
\* and the files a request staged without an acceptor error all exist until
\* its own cleanup starts.
C10_CleanupOwnFilesOnly ==
    /\ \A o \in unlinks : o.path \in StagedPaths(o.req)
    /\ \A r \in Reqs :
        (upload[r].error = Undefined /\ runs[r] = 0) => StagedPaths(r) \subseteq disk

\* A has ended with its files removed while B's staged file, not yet cleaned
\* up, is still on disk.
C10_Witness ==
    /\ pc["A"] = "done"
    /\ Cardinality(StagedPaths("A")) >= 2
    /\ StagedPaths("A") \cap disk = {}
    /\ \A p \in StagedPaths("A") : \E o \in Attempts(p) : o.result = "removed"
    /\ StagedPaths("B") # {}
    /\ StagedPaths("B") \subseteq disk
    /\ runs["B"] = 0

====
